---- MODULE Spec2Model ----
(***************************************************************************)
(* tf-keras-vis: the attribution engine.                                   *)
(*                                                                         *)
(* Gradcam.__call__ (tf_keras_vis/gradcam.py) is modelled statement by     *)
(* statement.  The helpers it inherits from ModelVisualization, the        *)
(* utilities of tf_keras_vis.utils and the Saliency visualizer are not     *)
(* part of the sources at hand; they are modelled from the specification   *)
(* and from the assertions of tests/tf_keras_vis/saliency_test.py.         *)
(*                                                                         *)
(* Tensors carry a shape, a dtype and, where the arithmetic matters, their *)
(* values.  The geometry is one spatial axis: a seed input is              *)
(* (batch, width, channels), a penultimate activation is                   *)
(* (batch, width', channels').  Values are integers; a division rounds     *)
(* down.  Standardized values are counted in units of 1/One.               *)
(*                                                                         *)
(* A keyword argument is bound when the call is made; the model draws its  *)
(* value at the statement that first reads it, which yields the same runs  *)
(* with fewer states.  args holds the arguments read so far.               *)
(***************************************************************************)
EXTENDS Integers, Sequences, FiniteSets, TLC

(* Bounds of the model. *)
MaxInputs == 2
MaxOutputs == 2
MaxBatch == 2
MaxSmooth == 3

VARIABLES
    models,         \* the model objects alive: models[1] is the caller's model
    selfModel,      \* self.model: index into models (0 before construction)
    visualizer,     \* "Gradcam" or "Saliency" ("" before construction)
    pc,             \* position in __call__
    args,           \* the arguments of the running call read so far
    scores,         \* local scores
    seed_inputs,    \* local seed_inputs
    model,          \* local model: the augmented model of the call
    watched,        \* tensors the gradient tape watches
    outputs,        \* local outputs (the model's outputs)
    penultimate_output,
    score_values,
    grads,
    weights,
    cam,            \* local cam
    acc,            \* Saliency: the smoothing accumulator
    trials,         \* Saliency: history of the per-trial maps (ghost)
    log,            \* the steps the call has run, in order
    result,         \* what the call returned
    raised          \* what the call raised

vars == <<models, selfModel, visualizer, pc, args, scores, seed_inputs, model,
          watched, outputs, penultimate_output, score_values, grads, weights,
          cam, acc, trials, log, result, raised>>

locals == <<scores, seed_inputs, model, watched, outputs, penultimate_output,
            score_values, grads, weights, cam>>

(***************************************************************************)
(* Values                                                                  *)
(***************************************************************************)
NoTensor == [shape |-> <<>>, dtype |-> "", vals |-> <<>>]
NoError == [type |-> "", cause |-> ""]
NoResult == [form |-> "none", maps |-> <<>>]
NoAcc == [num |-> <<>>, den |-> 1, k |-> 0]
NoModel == [nIn |-> 0, nOut |-> 0, mixed |-> FALSE, layers |-> <<>>,
            activation |-> "", penultimate |-> 0]

SeqsUpTo(S, n) == UNION {[1..k -> S] : k \in 0..n}

Min2(a, b) == IF a < b THEN a ELSE b

RECURSIVE SumSeq(_)
SumSeq(s) == IF s = <<>> THEN 0 ELSE Head(s) + SumSeq(Tail(s))

MaxOf(S) == CHOOSE x \in S : \A y \in S : y <= x
MinOf(S) == CHOOSE x \in S : \A y \in S : x <= y

Range(s) == {s[i] : i \in DOMAIN s}

(* listify: an argument that is one object or a list of them, as a list. *)
None == [kind |-> "none", items |-> <<>>]
Single(x) == [kind |-> "single", items |-> <<x>>]
List(xs) == [kind |-> "list", items |-> xs]
listify(x) == x.items

(***************************************************************************)
(* The models a caller may bring                                           *)
(***************************************************************************)
(* A layer is named by its kind: a convolutional layer's output has a      *)
(* spatial axis (rank 3), a dense layer's has none (rank 2).               *)
LayerStacks == {<<"conv", "conv", "dense">>, <<"dense", "dense">>}
OutputRank(layer) == IF layer = "conv" THEN 3 ELSE 2

Models == [nIn : 1..MaxInputs, nOut : 1..MaxOutputs, mixed : BOOLEAN,
           layers : LayerStacks, activation : {"softmax"}, penultimate : {0}]

(* model.inputs[i].shape[1:], the declared per-example shape of input i. *)
InputShape(i) == <<i + 2, 3>>

compute_dtype(m) == IF m.mixed THEN "float16" ELSE "float32"
variable_dtype(m) == "float32"
is_mixed_precision(m) == m.mixed


(***************************************************************************)
(* ModelVisualization: construction and argument normalisation             *)
(***************************************************************************)
(* A model modifier of the tests: model.layers[-1].activation = linear,    *)
(* done in place, returning nothing.                                       *)
ModelModifiers == {"None", "linear_activation"}

ApplyModifier(modifier, m) ==
    IF modifier = "None" THEN m ELSE [m EXCEPT !.activation = "linear"]

(* A faulty construction: the modifier is run on the caller's model before *)
(* the copy is taken.                                                      *)
ConstructedModels_ModifyThenClone(ms, modifier, clone) ==
    IF modifier = "None" THEN ms
    ELSE IF clone THEN <<ApplyModifier(modifier, ms[1]), ApplyModifier(modifier, ms[1])>>
    ELSE <<ApplyModifier(modifier, ms[1])>>

(* ModelVisualization.__init__(model, model_modifier, clone): the model    *)
(* objects alive after construction and the one self.model names.          *)
ConstructedModels(ms, modifier, clone) ==
    IF modifier = "None" THEN ms
    ELSE IF clone THEN ms \o <<ApplyModifier(modifier, ms[1])>>
    ELSE <<ApplyModifier(modifier, ms[1])>>

ConstructedSelf(modifier, clone) ==
    IF modifier # "None" /\ clone THEN 2 ELSE 1

(* A score is callable unless it is None. *)
callable(score) == score # "None"

(* _get_scores_for_multiple_outputs raises ValueError. *)
ScoresInvalid(self, score) ==
    \/ score.kind = "none"
    \/ \E i \in DOMAIN listify(score) : ~callable(listify(score)[i])
    \/ Len(listify(score)) # self.nOut

get_scores_for_multiple_outputs(self, score) == listify(score)

(* A seed input without a batch axis gets one of size 1. *)
expand_dims(x, i) ==
    IF Len(x.shape) = Len(InputShape(i))
    THEN [x EXCEPT !.shape = <<1>> \o @]
    ELSE x

(* _get_seed_inputs_for_multiple_inputs raises ValueError. *)
SeedInputsInvalid(self, seed_input) ==
    \/ seed_input.kind = "none"
    \/ Len(listify(seed_input)) # self.nIn
    \/ \E i \in DOMAIN listify(seed_input) :
          Len(expand_dims(listify(seed_input)[i], i).shape) # Len(InputShape(i)) + 1

SeedInputsCause(self, seed_input) ==
    IF seed_input.kind = "none" \/ Len(listify(seed_input)) # self.nIn
    THEN "seed_input count" ELSE "seed_input rank"

get_seed_inputs_for_multiple_inputs(self, seed_input) ==
    [i \in DOMAIN listify(seed_input) |-> expand_dims(listify(seed_input)[i], i)]

(***************************************************************************)
(* ExtractIntermediateLayerForGradcam: the penultimate layer               *)
(***************************************************************************)
(* penultimate_layer: 0 stands for None (the last layer), k > 0 for the    *)
(* k-th layer.                                                             *)
HintedLayer(m, penultimate_layer) ==
    IF penultimate_layer = 0 THEN Len(m.layers) ELSE penultimate_layer

IsSpatial(m, k) == OutputRank(m.layers[k]) >= 3

(* The layer resolved, 0 when there is none (ValueError). *)
LocatePenultimate(m, penultimate_layer, seek_conv) ==
    LET h == HintedLayer(m, penultimate_layer)
        before == {k \in 1..h : IsSpatial(m, k)}
    IN  IF IsSpatial(m, h) THEN h
        ELSE IF seek_conv /\ before # {} THEN MaxOf(before)
        ELSE 0

(* The augmented model: a new model object whose outputs are the model's   *)
(* outputs and then the resolved layer's activation.                       *)
ModelModifier(m, penultimate_layer, seek_conv) ==
    [m EXCEPT !.penultimate = LocatePenultimate(m, penultimate_layer, seek_conv)]


(***************************************************************************)
(* The differentiable model (a collaborator): forward pass and gradient    *)
(***************************************************************************)
(* Activations of the penultimate layer the forward pass may produce,      *)
(* for the example at batch position b: [position][channel].               *)
PenSamples == {1, 2}
PenExample(s, b) ==
    IF s = 1 THEN <<<<b, 0>>, <<0, 1>>>> ELSE <<<<1, b>>, <<2, 1>>>>

(* Gradients of the score with respect to that activation. *)
GradSamples == {1, 2}
GradExample(g, b) ==
    IF g = 1 THEN <<<<2, -2>>, <<2, -4>>>> ELSE <<<<2 * b, 0>>, <<0, 0>>>>

BatchSize(xs) == xs[1].shape[1]

ShapeOf3(vals) == <<Len(vals), Len(vals[1]), Len(vals[1][1])>>

Tensor3(vals, dtype) == [shape |-> ShapeOf3(vals), dtype |-> dtype, vals |-> vals]

(* model(seed_inputs, training): the model's outputs, then the activation  *)
(* of the penultimate layer.                                               *)
OutputTensor(m, xs) ==
    [shape |-> <<BatchSize(xs), 2>>, dtype |-> compute_dtype(m), vals |-> <<>>]

Forward(m, xs, s) ==
    [j \in 1..m.nOut |-> OutputTensor(m, xs)]
    \o <<Tensor3([b \in 1..BatchSize(xs) |-> PenExample(s, b)], compute_dtype(m))>>

(* A score built on the model's output depends on it; a callable that      *)
(* returns a constant does not.                                            *)
ScoreItems == {"None", "CategoricalScore", "constant"}
DependsOnOutput(score) == score = "CategoricalScore"

(* _calculate_scores: one value per output, TRUE when it depends on the    *)
(* output it was computed from.                                            *)
calculate_scores(outs, ss) ==
    [j \in 1..Min2(Len(outs), Len(ss)) |-> DependsOnOutput(ss[j])]

NoneTensor == [shape |-> <<>>, dtype |-> "None", vals |-> <<>>]

zeros_like(x) ==
    [x EXCEPT !.vals = [b \in DOMAIN x.vals |->
                          [p \in DOMAIN x.vals[b] |->
                             [c \in DOMAIN x.vals[b][p] |-> 0]]]]

(* The tape records what is computed from a watched tensor: the            *)
(* penultimate activation is computed from the seed inputs.                *)
Recorded(w, xs, target) == target \in w \/ (xs # <<>> /\ Range(xs) \subseteq w)

UnconnectedGradients == {"none", "zero"}

(* tape.gradient(score_values, target, unconnected_gradients) *)
Gradient(w, xs, values, target, unconnected_gradients, g) ==
    IF Recorded(w, xs, target) /\ \E j \in DOMAIN values : values[j]
    THEN [target EXCEPT !.vals = [b \in DOMAIN target.vals |-> GradExample(g, b)]]
    ELSE IF unconnected_gradients = "zero" THEN zeros_like(target)
    ELSE NoneTensor

(***************************************************************************)
(* Arithmetic of Gradcam                                                   *)
(***************************************************************************)
cast(x, dtype) == [x EXCEPT !.dtype = dtype]

JoinDtype(a, b) == IF a = b THEN a ELSE "mixed"

(* K.mean(grads, axis = the spatial axes, keepdims = True) *)
SpatialMean(g) ==
    [shape |-> <<g.shape[1], 1, g.shape[3]>>,
     dtype |-> g.dtype,
     vals |-> [b \in DOMAIN g.vals |->
                 << [c \in 1..g.shape[3] |->
                       SumSeq([p \in DOMAIN g.vals[b] |-> g.vals[b][p][c]])
                          \div g.shape[2]] >>]]

(* np.sum(np.multiply(penultimate_output, weights), axis=-1) *)
WeightedSum(a, w) ==
    [shape |-> <<a.shape[1], a.shape[2]>>,
     dtype |-> JoinDtype(a.dtype, w.dtype),
     vals |-> [b \in DOMAIN a.vals |->
                 [p \in DOMAIN a.vals[b] |->
                    SumSeq([c \in DOMAIN a.vals[b][p] |->
                              a.vals[b][p][c] * w.vals[b][1][c]])]]]

ActivationModifiers == {"None", "relu"}

relu(x) ==
    [x EXCEPT !.vals = [b \in DOMAIN x.vals |->
                          [p \in DOMAIN x.vals[b] |->
                             IF x.vals[b][p] < 0 THEN 0 ELSE x.vals[b][p]]]]

ApplyActivation(f, x) == IF f = "relu" THEN relu(x) ELSE x

(* utils.standardize: per example, (x - min) / (max - min) in units of     *)
(* 1/One; an example of zero range maps to 0.                              *)
One == 12

StandardizeRow(row) ==
    LET lo == MinOf(Range(row))
        hi == MaxOf(Range(row))
    IN  [p \in DOMAIN row |->
           IF hi = lo THEN 0 ELSE ((row[p] - lo) * One) \div (hi - lo)]

standardize(x) == [x EXCEPT !.vals = [b \in DOMAIN x.vals |-> StandardizeRow(x.vals[b])]]

(* utils.zoom_factor(from_shape, to_shape): per axis the ratio to/from,    *)
(* kept as the pair <<to, from>>, over the axes both shapes have.          *)
zoom_factor(from_shape, to_shape) ==
    [k \in 1..Min2(Len(from_shape), Len(to_shape)) |-> <<to_shape[k], from_shape[k]>>]

(* scipy.ndimage.zoom(x, factor, order=1): linear interpolation; output    *)
(* index i of n reads the input at (i - 1) * (len - 1) / (n - 1).          *)
Interpolate(x, i, n) ==
    LET den == IF n > 1 THEN n - 1 ELSE 1
        num == (i - 1) * (Len(x) - 1)
        lo == num \div den + 1
        hi == Min2(lo + 1, Len(x))
    IN  x[lo] + ((x[hi] - x[lo]) * (num % den)) \div den

zoom(x, factor) ==
    LET rows == (x.shape[1] * factor[1][1]) \div factor[1][2]
        cols == (x.shape[2] * factor[2][1]) \div factor[2][2]
    IN  [shape |-> <<rows, cols>>,
         dtype |-> x.dtype,
         vals |-> [r \in 1..rows |->
                     [c \in 1..cols |->
                        Interpolate([b \in DOMAIN x.vals |->
                                       Interpolate(x.vals[b], c, cols)], r, rows)]]]


(***************************************************************************)
(* The arguments a caller may pass                                         *)
(***************************************************************************)
ScoreArgs ==
    {None} \cup {Single(x) : x \in ScoreItems}
           \cup {List(xs) : xs \in SeqsUpTo(ScoreItems, MaxOutputs)}

(* A seed tensor for input i: one example without a batch axis, a batch of *)
(* b examples, or a tensor of a rank the input does not have.  The seed    *)
(* tensors of one call hold the same number of examples.                   *)
SeedForms(b) == IF b = 1 THEN {"example", "batch", "short", "long"}
                ELSE {"batch", "short", "long"}

SeedShape(form, i, b) ==
    IF form = "example" THEN InputShape(i)
    ELSE IF form = "batch" THEN <<b>> \o InputShape(i)
    ELSE IF form = "short" THEN Tail(InputShape(i))
    ELSE <<1, 1>> \o InputShape(i)

SeedTensor(form, i, b) ==
    [shape |-> SeedShape(form, i, b), dtype |-> "float32", vals |-> <<>>]

SeedArgs ==
    {None}
    \cup UNION {{Single(SeedTensor(f, 1, b)) : f \in SeedForms(b)} : b \in 1..MaxBatch}
    \cup UNION {{List([i \in DOMAIN fs |-> SeedTensor(fs[i], i, b)]) :
                    fs \in SeqsUpTo(SeedForms(b), MaxInputs)} : b \in 1..MaxBatch}

PenultimateLayerArgs == {0, 1}

(* A faulty default: ZERO in the place of NONE. *)
UnconnectedGradientsDefault_Zero == "zero"

(* unconnected_gradients when the caller passes none: the default of the   *)
(* signature.                                                              *)
UnconnectedGradientsDefault == "none"

UnconnectedGradientsArgs == {"omitted"} \cup UnconnectedGradients

EffectiveUnconnectedGradients(passed) ==
    IF passed = "omitted" THEN UnconnectedGradientsDefault ELSE passed

(***************************************************************************)
(* State                                                                   *)
(***************************************************************************)
NoArgs == [visualizer |-> ""]

self == IF selfModel = 0 THEN NoModel ELSE models[selfModel]

Init ==
    /\ models \in {<<m>> : m \in Models}
    /\ selfModel = 0
    /\ visualizer = ""
    /\ pc = "new"
    /\ args = NoArgs
    /\ scores = <<>>
    /\ seed_inputs = <<>>
    /\ model = NoModel
    /\ watched = {}
    /\ outputs = <<>>
    /\ penultimate_output = NoTensor
    /\ score_values = <<>>
    /\ grads = NoTensor
    /\ weights = NoTensor
    /\ cam = <<>>
    /\ acc = NoAcc
    /\ trials = <<>>
    /\ log = <<>>
    /\ result = NoResult
    /\ raised = NoError

Raise(type, cause) ==
    /\ pc' = "raised"
    /\ raised' = [type |-> type, cause |-> cause]
    /\ UNCHANGED result

Goto(label) ==
    /\ pc' = label
    /\ UNCHANGED <<result, raised>>

Return(value) ==
    /\ pc' = "returned"
    /\ result' = value
    /\ UNCHANGED raised

Bind(name, value) == args' = args @@ (name :> value)

(* Visualizer(model, model_modifier, clone): ModelVisualization.__init__ *)
Construct(kind, modifier, clone) ==
    /\ pc = "new"
    /\ models' = ConstructedModels(models, modifier, clone)
    /\ selfModel' = ConstructedSelf(modifier, clone)
    /\ args' = [visualizer |-> kind, model_modifier |-> modifier, clone |-> clone]
    /\ visualizer' = kind
    /\ pc' = "idle"
    /\ UNCHANGED <<locals, acc, trials, log, result, raised>>

(* Gradcam(model): no modifier, clone left at its default. *)
ConstructGradcam == Construct("Gradcam", "None", TRUE)

(* Saliency(model) *)
ConstructSaliency == Construct("Saliency", "None", TRUE)

(* Visualizer(model, model_modifier=..., clone=...) *)
ConstructWith ==
    \E kind \in {"Gradcam", "Saliency"}, modifier \in ModelModifiers, clone \in BOOLEAN :
       Construct(kind, modifier, clone)

(***************************************************************************)
(* Gradcam.__call__                                                        *)
(***************************************************************************)
(* Entry.  normalize_gradient is disabled: passing it only issues a        *)
(* DeprecationWarning, which changes nothing the call computes.            *)
GradcamCall ==
    /\ pc = "idle"
    /\ visualizer = "Gradcam"
    /\ pc' = "scores"
    /\ log' = <<"call">>
    /\ UNCHANGED <<models, selfModel, visualizer, args, locals, acc, trials,
                   result, raised>>

(* A faulty step: the score is listified and never checked. *)
PrepareScores_Unchecked ==
    /\ pc = "scores"
    /\ \E score \in ScoreArgs :
          /\ Bind("score", score)
          /\ scores' = listify(score)
          /\ Goto("seeds")
    /\ log' = Append(log, "scores")
    /\ UNCHANGED <<models, selfModel, visualizer, seed_inputs, model, watched,
                   outputs, penultimate_output, score_values, grads, weights,
                   cam, acc, trials>>

(* scores = self._get_scores_for_multiple_outputs(score) *)
PrepareScores ==
    /\ pc = "scores"
    /\ \E score \in ScoreArgs :
          /\ Bind("score", score)
          /\ IF ScoresInvalid(self, score)
             THEN /\ Raise("ValueError", "score")
                  /\ UNCHANGED scores
             ELSE /\ scores' = get_scores_for_multiple_outputs(self, score)
                  /\ Goto("seeds")
    /\ log' = Append(log, "scores")
    /\ UNCHANGED <<models, selfModel, visualizer, seed_inputs, model, watched,
                   outputs, penultimate_output, score_values, grads, weights,
                   cam, acc, trials>>

(* A faulty step: the number of seed inputs is never compared with the     *)
(* number of model inputs.                                                 *)
PrepareSeedInputs_AnyCount ==
    /\ pc = "seeds"
    /\ \E seed_input \in SeedArgs :
          /\ Bind("seed_input", seed_input)
          /\ IF \/ seed_input.kind = "none"
                \/ \E i \in DOMAIN listify(seed_input) :
                      Len(expand_dims(listify(seed_input)[i], i).shape) # Len(InputShape(i)) + 1
             THEN /\ Raise("ValueError", "seed_input rank")
                  /\ UNCHANGED seed_inputs
             ELSE /\ seed_inputs' = get_seed_inputs_for_multiple_inputs(self, seed_input)
                  /\ Goto("model")
    /\ log' = Append(log, "seed_inputs")
    /\ UNCHANGED <<models, selfModel, visualizer, scores, model, watched,
                   outputs, penultimate_output, score_values, grads, weights,
                   cam, acc, trials>>

(* seed_inputs = self._get_seed_inputs_for_multiple_inputs(seed_input) *)
PrepareSeedInputs ==
    /\ pc = "seeds"
    /\ \E seed_input \in SeedArgs :
          /\ Bind("seed_input", seed_input)
          /\ IF SeedInputsInvalid(self, seed_input)
             THEN /\ Raise("ValueError", SeedInputsCause(self, seed_input))
                  /\ UNCHANGED seed_inputs
             ELSE /\ seed_inputs' = get_seed_inputs_for_multiple_inputs(self, seed_input)
                  /\ Goto("model")
    /\ log' = Append(log, "seed_inputs")
    /\ UNCHANGED <<models, selfModel, visualizer, scores, model, watched,
                   outputs, penultimate_output, score_values, grads, weights,
                   cam, acc, trials>>

(* A faulty step: the penultimate layer is looked for only after the model *)
(* has been run under the tape.                                            *)
ProcessModel_AfterForward ==
    /\ pc = "model"
    /\ \E penultimate_layer \in PenultimateLayerArgs, seek \in BOOLEAN :
          /\ args' = args @@ ("penultimate_layer" :> penultimate_layer)
                          @@ ("seek_penultimate_conv_layer" :> seek)
          /\ IF LocatePenultimate(self, penultimate_layer, seek) = 0
             THEN /\ Raise("ValueError", "penultimate_layer")
                  /\ UNCHANGED model
             ELSE /\ model' = ModelModifier(self, penultimate_layer, seek)
                  /\ Goto("tape")
    /\ log' = log \o <<"watch", "forward", "model">>
    /\ UNCHANGED <<models, selfModel, visualizer, scores, seed_inputs, watched,
                   outputs, penultimate_output, score_values, grads, weights,
                   cam, acc, trials>>

(* model = ModelModifier(penultimate_layer, seek_penultimate_conv_layer)(self.model) *)
ProcessModel ==
    /\ pc = "model"
    /\ \E penultimate_layer \in PenultimateLayerArgs, seek \in BOOLEAN :
          /\ args' = args @@ ("penultimate_layer" :> penultimate_layer)
                          @@ ("seek_penultimate_conv_layer" :> seek)
          /\ IF LocatePenultimate(self, penultimate_layer, seek) = 0
             THEN /\ Raise("ValueError", "penultimate_layer")
                  /\ UNCHANGED model
             ELSE /\ model' = ModelModifier(self, penultimate_layer, seek)
                  /\ Goto("tape")
    /\ log' = Append(log, "model")
    /\ UNCHANGED <<models, selfModel, visualizer, scores, seed_inputs, watched,
                   outputs, penultimate_output, score_values, grads, weights,
                   cam, acc, trials>>


(* A faulty watch: nothing is watched. *)
TapeWatch_Nothing(xs) == {}

(* tape.watch(seed_inputs) *)
TapeWatch(xs) == Range(xs)

(* outputs, penultimate_output = outputs[:-1], outputs[-1] *)
OriginalOutputs(outs) == SubSeq(outs, 1, Len(outs) - 1)
LastOutput(outs) == outs[Len(outs)]

(* with tf.GradientTape(...) as tape: watch, forward pass, scores *)
TapeForward ==
    /\ pc = "tape"
    /\ watched' = TapeWatch(seed_inputs)
    /\ \E s \in PenSamples :
          LET outs == Forward(model, seed_inputs, s)
          IN  /\ outputs' = OriginalOutputs(outs)
              /\ penultimate_output' = LastOutput(outs)
              /\ score_values' = calculate_scores(OriginalOutputs(outs), scores)
    /\ log' = log \o <<"watch", "forward", "score_values">>
    /\ Goto("gradient")
    /\ UNCHANGED <<models, selfModel, visualizer, args, scores, seed_inputs,
                   model, grads, weights, cam, acc, trials>>

(* grads = tape.gradient(score_values, penultimate_output, unconnected_gradients) *)
TapeGradient ==
    /\ pc = "gradient"
    /\ \E passed \in UnconnectedGradientsArgs, g \in GradSamples :
          /\ Bind("unconnected_gradients", passed)
          /\ grads' = Gradient(watched, seed_inputs, score_values, penultimate_output,
                               EffectiveUnconnectedGradients(passed), g)
    /\ log' = Append(log, "gradient")
    /\ Goto("cast")
    /\ UNCHANGED <<models, selfModel, visualizer, scores, seed_inputs, model,
                   watched, outputs, penultimate_output, score_values, weights,
                   cam, acc, trials>>

(* A faulty cast: the gradients are cast, the penultimate activation is    *)
(* left in the compute dtype.                                              *)
MixedPrecisionCast_GradsOnly ==
    /\ pc = "cast"
    /\ IF ~is_mixed_precision(model)
       THEN /\ Goto("weights")
            /\ UNCHANGED <<grads, log>>
       ELSE IF grads = NoneTensor
       THEN /\ Raise("ValueError", "gradient is None")
            /\ UNCHANGED <<grads, log>>
       ELSE /\ grads' = cast(grads, variable_dtype(model))
            /\ log' = Append(log, "cast")
            /\ Goto("weights")
    /\ UNCHANGED <<models, selfModel, visualizer, args, scores, seed_inputs,
                   model, watched, outputs, penultimate_output, score_values,
                   weights, cam, acc, trials>>

(* if is_mixed_precision(model): cast grads and penultimate_output.         *)
(* tf.cast(None, ...) raises ValueError.                                    *)
MixedPrecisionCast ==
    /\ pc = "cast"
    /\ IF ~is_mixed_precision(model)
       THEN /\ Goto("weights")
            /\ UNCHANGED <<grads, penultimate_output, log>>
       ELSE IF grads = NoneTensor
       THEN /\ Raise("ValueError", "gradient is None")
            /\ UNCHANGED <<grads, penultimate_output, log>>
       ELSE /\ grads' = cast(grads, variable_dtype(model))
            /\ penultimate_output' = cast(penultimate_output, variable_dtype(model))
            /\ log' = Append(log, "cast")
            /\ Goto("weights")
    /\ UNCHANGED <<models, selfModel, visualizer, args, scores, seed_inputs,
                   model, watched, outputs, score_values, weights, cam, acc,
                   trials>>

(* weights = K.mean(grads, axis=tuple(range(grads.ndim)[1:-1]), keepdims=True) *)
(* None has no attribute ndim.                                              *)
Weights ==
    /\ pc = "weights"
    /\ IF grads = NoneTensor
       THEN /\ Raise("AttributeError", "gradient is None")
            /\ UNCHANGED <<weights, log>>
       ELSE /\ weights' = SpatialMean(grads)
            /\ log' = Append(log, "weights")
            /\ Goto("cam")
    /\ UNCHANGED <<models, selfModel, visualizer, args, scores, seed_inputs,
                   model, watched, outputs, penultimate_output, score_values,
                   grads, cam, acc, trials>>

(* cam = np.sum(np.multiply(penultimate_output, weights), axis=-1) *)
Cam ==
    /\ pc = "cam"
    /\ cam' = <<WeightedSum(penultimate_output, weights)>>
    /\ log' = Append(log, "cam")
    /\ Goto("activation")
    /\ UNCHANGED <<models, selfModel, visualizer, args, scores, seed_inputs,
                   model, watched, outputs, penultimate_output, score_values,
                   grads, weights, acc, trials>>

(* if activation_modifier is not None: cam = activation_modifier(cam) *)
ModifiedCam(activation_modifier, x) ==
    IF activation_modifier # "None" THEN ApplyActivation(activation_modifier, x) ELSE x

ActivationLog(activation_modifier) ==
    IF activation_modifier # "None" THEN <<"activation_modifier">> ELSE <<>>

ActivationModifier ==
    /\ pc = "activation"
    /\ \E activation_modifier \in ActivationModifiers :
          /\ Bind("activation_modifier", activation_modifier)
          /\ cam' = <<ModifiedCam(activation_modifier, cam[1])>>
          /\ log' = log \o ActivationLog(activation_modifier)
    /\ Goto("expand")
    /\ UNCHANGED <<models, selfModel, visualizer, scores, seed_inputs, model,
                   watched, outputs, penultimate_output, score_values, grads,
                   weights, acc, trials>>

(* A faulty return: the map that is not resized is not standardized either. *)
UnexpandedCam_Raw(standardize_cam, x) == x

(* if not expand_cam: if standardize_cam: cam = standardize(cam); return cam *)
UnexpandedCam(standardize_cam, x) == IF standardize_cam THEN standardize(x) ELSE x

StandardizeLog(standardize_cam) == IF standardize_cam THEN <<"standardize">> ELSE <<>>

ReturnUnexpanded ==
    /\ pc = "expand"
    /\ \E standardize_cam \in BOOLEAN :
          /\ args' = args @@ ("expand_cam" :> FALSE) @@ ("standardize_cam" :> standardize_cam)
          /\ cam' = <<UnexpandedCam(standardize_cam, cam[1])>>
          /\ log' = log \o StandardizeLog(standardize_cam)
          /\ Return([form |-> "bare", maps |-> <<UnexpandedCam(standardize_cam, cam[1])>>])
    /\ UNCHANGED <<models, selfModel, visualizer, scores, seed_inputs, model,
                   watched, outputs, penultimate_output, score_values, grads,
                   weights, acc, trials>>

(* Faulty resizing: the factor taken against the per-example shape of the  *)
(* seed input; every map resized to the first seed input.                  *)
ExpandedCams_NoBatchAxis(x, xs) ==
    [i \in DOMAIN xs |-> zoom(x, zoom_factor(x.shape, Tail(xs[i].shape)))]

ExpandedCams_FirstInput(x, xs) ==
    [i \in DOMAIN xs |-> zoom(x, zoom_factor(x.shape, xs[1].shape))]

(* factors = (zoom_factor(cam.shape, X.shape) for X in seed_inputs)         *)
(* cam = [zoom(cam, factor, order=1) for factor in factors]                 *)
ExpandedCams(x, xs) ==
    [i \in DOMAIN xs |-> zoom(x, zoom_factor(x.shape, xs[i].shape))]

Expand ==
    /\ pc = "expand"
    /\ Bind("expand_cam", TRUE)
    /\ cam' = ExpandedCams(cam[1], seed_inputs)
    /\ log' = Append(log, "zoom")
    /\ Goto("standardize")
    /\ UNCHANGED <<models, selfModel, visualizer, scores, seed_inputs, model,
                   watched, outputs, penultimate_output, score_values, grads,
                   weights, acc, trials>>

(* if standardize_cam: cam = [standardize(x) for x in cam] *)
StandardizedCams(standardize_cam, cams) ==
    IF standardize_cam THEN [i \in DOMAIN cams |-> standardize(cams[i])] ELSE cams

StandardizeCams ==
    /\ pc = "standardize"
    /\ \E standardize_cam \in BOOLEAN :
          /\ Bind("standardize_cam", standardize_cam)
          /\ cam' = StandardizedCams(standardize_cam, cam)
          /\ log' = log \o StandardizeLog(standardize_cam)
    /\ Goto("unwrap")
    /\ UNCHANGED <<models, selfModel, visualizer, scores, seed_inputs, model,
                   watched, outputs, penultimate_output, score_values, grads,
                   weights, acc, trials>>

(* A faulty unwrapping: by the number of model inputs alone. *)
Unwrapped_ByInputCount(m, seed_input, cams) ==
    IF m.nIn = 1
    THEN [form |-> "bare", maps |-> <<cams[1]>>]
    ELSE [form |-> "list", maps |-> cams]

(* if len(self.model.inputs) == 1 and not isinstance(seed_input, list):     *)
(*     cam = cam[0]                                                         *)
(* return cam                                                               *)
Unwrapped(m, seed_input, cams) ==
    IF m.nIn = 1 /\ seed_input.kind # "list"
    THEN [form |-> "bare", maps |-> <<cams[1]>>]
    ELSE [form |-> "list", maps |-> cams]

Unwrap ==
    /\ pc = "unwrap"
    /\ Return(Unwrapped(self, args.seed_input, cam))
    /\ UNCHANGED <<models, selfModel, visualizer, args, locals, acc, trials, log>>

(* The call is over: its frame is gone and the visualizer can be called    *)
(* again.                                                                  *)
Finish ==
    /\ pc \in {"returned", "raised"}
    /\ pc' = "idle"
    /\ args' = [a \in {"visualizer", "model_modifier", "clone"} |-> args[a]]
    /\ scores' = <<>>
    /\ seed_inputs' = <<>>
    /\ model' = NoModel
    /\ watched' = {}
    /\ outputs' = <<>>
    /\ penultimate_output' = NoTensor
    /\ score_values' = <<>>
    /\ grads' = NoTensor
    /\ weights' = NoTensor
    /\ cam' = <<>>
    /\ acc' = NoAcc
    /\ trials' = <<>>
    /\ log' = <<>>
    /\ result' = NoResult
    /\ raised' = NoError
    /\ UNCHANGED <<models, selfModel, visualizer>>

(***************************************************************************)
(* Saliency.__call__                                                       *)
(***************************************************************************)
(* Gradients of the score with respect to seed input x, for the example at *)
(* batch position b: [position][channel].                                  *)
SeedGradSamples == {1, 2}
SeedGradExample(g, x, b) ==
    [p \in 1..x.shape[2] |->
       [c \in 1..x.shape[3] |-> IF g = 1 THEN p + c - b ELSE ((p * c) % 3) - 1]]

SeedGradient(g, x) == [b \in 1..x.shape[1] |-> SeedGradExample(g, x, b)]

ZeroGradient(x) ==
    [b \in 1..x.shape[1] |-> [p \in 1..x.shape[2] |-> [c \in 1..x.shape[3] |-> 0]]]

(* The base computation: one gradient per seed input, zero-filled (the     *)
(* policy when the caller passes none) when no score depends on the        *)
(* model's outputs.                                                        *)
SaliencyConnected(ss) == \E j \in DOMAIN ss : DependsOnOutput(ss[j])

SaliencyGradients(ss, xs, g) ==
    IF SaliencyConnected(ss)
    THEN [i \in DOMAIN xs |-> SeedGradient(g, xs[i])]
    ELSE [i \in DOMAIN xs |-> ZeroGradient(xs[i])]

(* The accumulator: per seed input the numerators of the running mean, and *)
(* the denominator they share.                                             *)
ZeroAcc(xs) == [num |-> [i \in DOMAIN xs |-> ZeroGradient(xs[i])], den |-> 1, k |-> 0]

(* A faulty accumulator: the maps are summed, never divided. *)
Accumulate_Sum(a, maps) ==
    [num |-> [i \in DOMAIN maps |->
                [b \in DOMAIN maps[i] |->
                   [p \in DOMAIN maps[i][b] |->
                      [c \in DOMAIN maps[i][b][p] |->
                         a.num[i][b][p][c] + maps[i][b][p][c] * a.den]]]],
     den |-> a.den,
     k |-> a.k + 1]

(* mean' = mean + (map - mean) / k, k the number of the trial *)
Accumulate(a, maps) ==
    LET k == a.k + 1
    IN  [num |-> [i \in DOMAIN maps |->
                    [b \in DOMAIN maps[i] |->
                       [p \in DOMAIN maps[i][b] |->
                          [c \in DOMAIN maps[i][b][p] |->
                             a.num[i][b][p][c] * k
                               + (maps[i][b][p][c] * a.den - a.num[i][b][p][c])]]]],
         den |-> a.den * k,
         k |-> k]

Averaged(a) ==
    [i \in DOMAIN a.num |->
       [b \in DOMAIN a.num[i] |->
          [p \in DOMAIN a.num[i][b] |->
             [c \in DOMAIN a.num[i][b][p] |-> a.num[i][b][p][c] \div a.den]]]]

(* keepdims=False collapses the channel axis (the largest value over the   *)
(* channels); keepdims=True keeps it.                                      *)
ChannelReduced(keepdims, x, vals) ==
    IF keepdims
    THEN [shape |-> x.shape, dtype |-> x.dtype, vals |-> vals]
    ELSE [shape |-> SubSeq(x.shape, 1, Len(x.shape) - 1),
          dtype |-> x.dtype,
          vals |-> [b \in DOMAIN vals |->
                      [p \in DOMAIN vals[b] |-> MaxOf(Range(vals[b][p]))]]]

(* standardize of a map that kept its channel axis: per example over all   *)
(* positions and channels.                                                 *)
StandardizeExample(ex) ==
    LET all == UNION {Range(ex[p]) : p \in DOMAIN ex}
        lo == MinOf(all)
        hi == MaxOf(all)
    IN  [p \in DOMAIN ex |->
           [c \in DOMAIN ex[p] |->
              IF hi = lo THEN 0 ELSE ((ex[p][c] - lo) * One) \div (hi - lo)]]

standardize_map(x) ==
    IF Len(x.shape) = 2 THEN standardize(x)
    ELSE [x EXCEPT !.vals = [b \in DOMAIN x.vals |-> StandardizeExample(x.vals[b])]]

(* denormalize_outputs: a bare map for one input given bare, else a list. *)
denormalize_outputs(m, seed_input, maps) ==
    IF m.nIn = 1 /\ seed_input.kind # "list"
    THEN [form |-> "bare", maps |-> <<maps[1]>>]
    ELSE [form |-> "list", maps |-> maps]

SaliencyCall ==
    /\ pc = "idle"
    /\ visualizer = "Saliency"
    /\ pc' = "s_scores"
    /\ log' = <<"call">>
    /\ UNCHANGED <<models, selfModel, visualizer, args, locals, acc, trials,
                   result, raised>>

SaliencyPrepareScores ==
    /\ pc = "s_scores"
    /\ \E score \in ScoreArgs :
          /\ Bind("score", score)
          /\ IF ScoresInvalid(self, score)
             THEN /\ Raise("ValueError", "score")
                  /\ UNCHANGED scores
             ELSE /\ scores' = get_scores_for_multiple_outputs(self, score)
                  /\ Goto("s_seeds")
    /\ log' = Append(log, "scores")
    /\ UNCHANGED <<models, selfModel, visualizer, seed_inputs, model, watched,
                   outputs, penultimate_output, score_values, grads, weights,
                   cam, acc, trials>>

SaliencyPrepareSeedInputs ==
    /\ pc = "s_seeds"
    /\ \E seed_input \in SeedArgs :
          /\ Bind("seed_input", seed_input)
          /\ IF SeedInputsInvalid(self, seed_input)
             THEN /\ Raise("ValueError", SeedInputsCause(self, seed_input))
                  /\ UNCHANGED seed_inputs
             ELSE /\ seed_inputs' = get_seed_inputs_for_multiple_inputs(self, seed_input)
                  /\ Goto("s_smooth")
    /\ log' = Append(log, "seed_inputs")
    /\ UNCHANGED <<models, selfModel, visualizer, scores, model, watched,
                   outputs, penultimate_output, score_values, grads, weights,
                   cam, acc, trials>>

(* smooth_samples = 1: a single computation on the seed inputs as given.   *)
SaliencyBase ==
    /\ pc = "s_smooth"
    /\ Bind("smooth_samples", 1)
    /\ \E g \in SeedGradSamples :
          cam' = [i \in DOMAIN seed_inputs |->
                    [shape |-> seed_inputs[i].shape, dtype |-> "float32",
                     vals |-> SaliencyGradients(scores, seed_inputs, g)[i]]]
    /\ watched' = Range(seed_inputs)
    /\ log' = log \o <<"watch", "forward", "gradient">>
    /\ Goto("s_reduce")
    /\ UNCHANGED <<models, selfModel, visualizer, scores, seed_inputs, model,
                   outputs, penultimate_output, score_values, grads, weights,
                   acc, trials>>

(* smooth_samples > 1: the accumulator starts empty. *)
SaliencySmooth ==
    /\ pc = "s_smooth"
    /\ \E n \in 2..MaxSmooth : Bind("smooth_samples", n)
    /\ acc' = ZeroAcc(seed_inputs)
    /\ Goto("s_trial")
    /\ UNCHANGED <<models, selfModel, visualizer, locals, trials, log>>

(* One trial: noise on every seed input, the base computation, the mean.   *)
SaliencyTrial ==
    /\ pc = "s_trial"
    /\ acc.k < args.smooth_samples
    /\ \E g \in SeedGradSamples :
          LET maps == SaliencyGradients(scores, seed_inputs, g)
          IN  /\ acc' = Accumulate(acc, maps)
              /\ trials' = Append(trials, maps)
    /\ watched' = Range(seed_inputs)
    /\ log' = log \o <<"noise", "watch", "forward", "gradient">>
    /\ Goto("s_trial")
    /\ UNCHANGED <<models, selfModel, visualizer, args, scores, seed_inputs,
                   model, outputs, penultimate_output, score_values, grads,
                   weights, cam>>

(* The trials are over: the maps are the accumulated means. *)
SaliencyAverage ==
    /\ pc = "s_trial"
    /\ acc.k = args.smooth_samples
    /\ cam' = [i \in DOMAIN seed_inputs |->
                 [shape |-> seed_inputs[i].shape, dtype |-> "float32",
                  vals |-> Averaged(acc)[i]]]
    /\ Goto("s_reduce")
    /\ UNCHANGED <<models, selfModel, visualizer, args, scores, seed_inputs,
                   model, watched, outputs, penultimate_output, score_values,
                   grads, weights, acc, trials, log>>

SaliencyReduce ==
    /\ pc = "s_reduce"
    /\ \E keepdims \in BOOLEAN :
          /\ Bind("keepdims", keepdims)
          /\ cam' = [i \in DOMAIN cam |-> ChannelReduced(keepdims, cam[i], cam[i].vals)]
    /\ log' = Append(log, "reduce")
    /\ Goto("s_standardize")
    /\ UNCHANGED <<models, selfModel, visualizer, scores, seed_inputs, model,
                   watched, outputs, penultimate_output, score_values, grads,
                   weights, acc, trials>>

SaliencyStandardize ==
    /\ pc = "s_standardize"
    /\ cam' = [i \in DOMAIN cam |-> standardize_map(cam[i])]
    /\ log' = Append(log, "standardize")
    /\ Goto("s_unwrap")
    /\ UNCHANGED <<models, selfModel, visualizer, args, scores, seed_inputs,
                   model, watched, outputs, penultimate_output, score_values,
                   grads, weights, acc, trials>>

SaliencyUnwrap ==
    /\ pc = "s_unwrap"
    /\ Return(denormalize_outputs(self, args.seed_input, cam))
    /\ UNCHANGED <<models, selfModel, visualizer, args, locals, acc, trials, log>>

GradcamSteps ==
    \/ GradcamCall
    \/ PrepareScores
    \/ PrepareSeedInputs
    \/ ProcessModel
    \/ TapeForward
    \/ TapeGradient
    \/ MixedPrecisionCast
    \/ Weights
    \/ Cam
    \/ ActivationModifier
    \/ ReturnUnexpanded
    \/ Expand
    \/ StandardizeCams
    \/ Unwrap

SaliencySteps ==
    \/ SaliencyCall
    \/ SaliencyPrepareScores
    \/ SaliencyPrepareSeedInputs
    \/ SaliencyBase
    \/ SaliencySmooth
    \/ SaliencyTrial
    \/ SaliencyAverage
    \/ SaliencyReduce
    \/ SaliencyStandardize
    \/ SaliencyUnwrap

Next ==
    \/ ConstructGradcam
    \/ ConstructSaliency
    \/ GradcamSteps
    \/ SaliencySteps
    \/ Finish

(* Calls of visualizers built on any of the models, without a modifier. *)
Spec == Init /\ [][Next]_vars

(* Construction with a model modifier, on the single-input, single-output *)
(* float32 models of the tests, and the calls that follow.                 *)
OwnershipModels == {m \in Models : m.nIn = 1 /\ m.nOut = 1 /\ ~m.mixed}

InitOwnership ==
    /\ Init
    /\ models[1] \in OwnershipModels

NextOwnership ==
    \/ ConstructWith
    \/ GradcamSteps
    \/ SaliencySteps
    \/ Finish

OwnershipSpec == InitOwnership /\ [][NextOwnership]_vars


(***************************************************************************)
(* Properties                                                              *)
(***************************************************************************)
Bound(name) == name \in DOMAIN args

Steps == Range(log)

(* C1. Score acceptance: a call raises ValueError and returns no map when  *)
(* score is None, when a score list holds None, or when the model has      *)
(* several outputs and score is a single Score or a list of another        *)
(* length; on a single-output model a single Score, a callable, or a list  *)
(* of one of them is accepted.                                             *)
C1_ScoreAcceptance ==
    Bound("score") =>
       LET score == args.score
           n == self.nOut
           refused == \/ score.kind = "none"
                      \/ "None" \in Range(score.items)
                      \/ n > 1 /\ (score.kind = "single" \/ Len(score.items) # n)
           accepted == /\ n = 1
                       /\ score.kind \in {"single", "list"}
                       /\ Len(score.items) = 1
                       /\ score.items[1] # "None"
       IN  /\ refused => /\ pc = "raised"
                         /\ raised = [type |-> "ValueError", cause |-> "score"]
                         /\ result = NoResult
           /\ accepted => /\ raised.cause # "score"
                          /\ scores = score.items

C1_Witness ==
    /\ visualizer = "Gradcam"
    /\ pc = "raised"
    /\ self.nOut > 1
    /\ args.score = Single("CategoricalScore")

(* C2. Seed-input cardinality: on a model with N > 1 inputs a call raises  *)
(* ValueError unless seed_input is a list of exactly N tensors; on any     *)
(* model a seed_input of None raises ValueError.                           *)
C2_SeedCardinality ==
    Bound("seed_input") =>
       LET seed == args.seed_input
           n == self.nIn
           exact == seed.kind = "list" /\ Len(seed.items) = n
       IN  /\ (n > 1 /\ ~exact) => /\ pc = "raised"
                                   /\ raised.type = "ValueError"
                                   /\ result = NoResult
           /\ seed.kind = "none" => /\ pc = "raised"
                                    /\ raised.type = "ValueError"
                                    /\ result = NoResult
           /\ (n > 1 /\ exact) => raised.cause # "seed_input count"

C2_Witness ==
    /\ visualizer = "Gradcam"
    /\ pc = "raised"
    /\ self.nIn > 1
    /\ Bound("seed_input")
    /\ args.seed_input.kind = "list"
    /\ Len(args.seed_input.items) = 1

(* C3. Seed-input rank: for an input of per-example rank r, a seed of rank *)
(* r becomes a batch of one (and the returned map has batch size 1), a     *)
(* seed of rank r + 1 is used as given, and a seed of any other rank makes *)
(* the call raise ValueError.                                              *)
C3_SeedRank ==
    (Bound("seed_input") /\ Len(args.seed_input.items) = self.nIn) =>
       LET seed == args.seed_input.items
           r(i) == Len(InputShape(i))
           rank(i) == Len(seed[i].shape)
       IN  IF \E i \in DOMAIN seed : rank(i) \notin {r(i), r(i) + 1}
           THEN /\ pc = "raised"
                /\ raised = [type |-> "ValueError", cause |-> "seed_input rank"]
                /\ result = NoResult
           ELSE /\ raised.cause # "seed_input rank"
                /\ \A i \in DOMAIN seed :
                      seed_inputs[i].shape =
                         IF rank(i) = r(i) THEN <<1>> \o seed[i].shape ELSE seed[i].shape
                /\ pc = "returned" =>
                      \A j \in DOMAIN result.maps :
                         result.maps[j].shape[1] =
                            IF rank(j) = r(j) THEN 1 ELSE seed[j].shape[1]

C3_Witness ==
    /\ visualizer = "Gradcam"
    /\ pc = "returned"
    /\ args.expand_cam
    /\ args.seed_input = Single(SeedTensor("example", 1, 1))
    /\ result.maps[1].shape[1] = 1


(* C4. Result form, as claimed (1): for every successful call the result   *)
(* is a bare map if and only if the model has one input and seed_input was *)
(* not a list; otherwise it is a list with one map per model input.        *)
C4_ResultFormAnyOptions ==
    pc = "returned" =>
       LET bare == self.nIn = 1 /\ args.seed_input.kind # "list"
       IN  /\ result.form = "bare" <=> bare
           /\ ~bare => Len(result.maps) = self.nIn

(* C4. Result form (2): that rule holds for every successful call that     *)
(* resizes its maps to the inputs (Saliency, and Gradcam with expand_cam   *)
(* true), the list holding the map of input i at place i; a Gradcam call   *)
(* with expand_cam false returns the one unresized map bare, whatever the  *)
(* inputs.                                                                 *)
C4_ResultForm ==
    pc = "returned" =>
       IF visualizer = "Gradcam" /\ ~args.expand_cam
       THEN /\ result.form = "bare"
            /\ Len(result.maps) = 1
            /\ result.maps[1].shape = SubSeq(penultimate_output.shape, 1, 2)
       ELSE LET bare == self.nIn = 1 /\ args.seed_input.kind # "list"
            IN  /\ result.form = "bare" <=> bare
                /\ Len(result.maps) = self.nIn
                /\ \A i \in 1..self.nIn :
                      result.maps[i].shape[2] = seed_inputs[i].shape[2]

C4_Witness ==
    /\ visualizer = "Gradcam"
    /\ pc = "returned"
    /\ args.expand_cam
    /\ self.nIn = 2
    /\ result.form = "list"
    /\ Len(result.maps) = 2

(* C5. Shape law: for every successful call that takes keepdims, the map   *)
(* for input i has the shape of seed input i (after batch promotion)       *)
(* without its channel axis when keepdims is false and its full shape when *)
(* keepdims is true, each input on its own; the maps Gradcam resizes       *)
(* (expand_cam true) have the shape of their seed input without the        *)
(* channel axis.                                                           *)
Front(shape) == SubSeq(shape, 1, Len(shape) - 1)

Holds(t) ==
    /\ Len(t.vals) = t.shape[1]
    /\ \A b \in DOMAIN t.vals :
          /\ Len(t.vals[b]) = t.shape[2]
          /\ Len(t.shape) = 3 => \A p \in DOMAIN t.vals[b] : Len(t.vals[b][p]) = t.shape[3]

InvalidArgument == {"score", "seed_input count", "seed_input rank", "penultimate_layer"}

C6_ValidationFirst ==
    (pc = "raised" /\ raised.type = "ValueError" /\ raised.cause \in InvalidArgument) =>
       /\ "forward" \notin Steps
       /\ "gradient" \notin Steps
       /\ "watch" \notin Steps
       /\ result = NoResult
       /\ cam = <<>>
       /\ outputs = <<>>
       /\ grads = NoTensor
       /\ args.score.kind = "none" =>
             /\ log = <<"call", "scores">>
             /\ model = NoModel
             /\ seed_inputs = <<>>

C6_Witness ==
    /\ visualizer = "Gradcam"
    /\ pc = "raised"
    /\ raised = [type |-> "ValueError", cause |-> "penultimate_layer"]
    /\ IsSpatial(self, 1)

(* C7. Unconnected gradient.  Unconnected: no score value depends on the   *)
(* model's outputs.                                                        *)
Unconnected == \A j \in DOMAIN score_values : ~score_values[j]

AllZero(maps) ==
    \A i \in DOMAIN maps : \A b \in DOMAIN maps[i].vals :
       \A p \in DOMAIN maps[i].vals[b] : maps[i].vals[b][p] = 0

(* C7, as claimed (1): when the caller passes no unconnected-gradients     *)
(* policy and the gradient is unconnected, the call does not raise and     *)
(* returns an all-zero map.                                                *)
C7_DefaultZeroFill ==
    (visualizer = "Gradcam" /\ Bound("unconnected_gradients")
       /\ args.unconnected_gradients = "omitted" /\ Unconnected) =>
       /\ pc # "raised"
       /\ pc = "returned" => AllZero(result.maps)

(* C7 (2): the default policy is NONE.  When the caller passes none (or    *)
(* NONE) and the gradient is unconnected, the gradient is None and the     *)
(* call raises at the first use of it, returning no map; when the caller   *)
(* passes ZERO, the call does not raise and every returned map is all      *)
(* zero.                                                                   *)
C7_UnconnectedGradient ==
    (visualizer = "Gradcam" /\ Bound("unconnected_gradients") /\ Unconnected) =>
       IF args.unconnected_gradients = "zero"
       THEN /\ pc # "raised"
            /\ grads.vals = zeros_like(penultimate_output).vals
            /\ pc = "returned" => AllZero(result.maps)
       ELSE /\ grads = NoneTensor
            /\ pc \in {"cast", "weights", "raised"}
            /\ pc = "raised" => raised.cause = "gradient is None"
            /\ result = NoResult

C7_Witness ==
    /\ visualizer = "Gradcam"
    /\ pc = "raised"
    /\ Bound("unconnected_gradients")
    /\ args.unconnected_gradients = "omitted"
    /\ Unconnected
    /\ raised = [type |-> "AttributeError", cause |-> "gradient is None"]


(* C8. Model ownership: a visualizer built with a model modifier and       *)
(* clone=true holds a model object that is not the caller's, and the       *)
(* caller's model stays as it was through the construction and every later *)
(* call; in every other combination the visualizer holds the caller's own  *)
(* model object, and with clone=false the modifier's change shows on the   *)
(* caller's model.                                                         *)
C8_ModelOwnership ==
    pc # "new" =>
       IF args.model_modifier # "None" /\ args.clone
       THEN /\ selfModel # 1
            /\ models[1] \in OwnershipModels
            /\ self = ApplyModifier(args.model_modifier, models[1])
       ELSE /\ selfModel = 1
            /\ Len(models) = 1
            /\ args.model_modifier # "None" => models[1].activation = "linear"
            /\ args.model_modifier = "None" => models[1] \in OwnershipModels

C8_Witness ==
    /\ pc = "returned"
    /\ args.model_modifier = "linear_activation"
    /\ args.clone
    /\ selfModel = 2
    /\ models[1].activation = "softmax"
    /\ models[2].activation = "linear"

(* C9. Smoothing: with smooth_samples = n > 1, after every completed trial *)
(* k (1 <= k <= n) the accumulator is the arithmetic mean of the k maps    *)
(* computed so far, and between trials nothing but the accumulator is      *)
(* held; with n = 1 one base computation is made, on the seed input as     *)
(* given.                                                                  *)
Count(step) == Cardinality({i \in DOMAIN log : log[i] = step})

IsMeanOf(a, maps) ==
    \A i \in DOMAIN a.num : \A b \in DOMAIN a.num[i] :
       \A p \in DOMAIN a.num[i][b] : \A c \in DOMAIN a.num[i][b][p] :
          a.num[i][b][p][c] * Len(maps) =
             a.den * SumSeq([j \in DOMAIN maps |-> maps[j][i][b][p][c]])

C9_RunningMean ==
    (visualizer = "Saliency" /\ Bound("smooth_samples")) =>
       IF args.smooth_samples > 1
       THEN /\ acc.k = Len(trials)
            /\ acc.k <= args.smooth_samples
            /\ DOMAIN acc.num = DOMAIN seed_inputs
            /\ acc.k >= 1 => IsMeanOf(acc, trials)
            /\ Count("gradient") = acc.k
            /\ Count("noise") = acc.k
            /\ pc = "s_trial" => cam = <<>>
            /\ pc \notin {"s_trial", "raised"} => acc.k = args.smooth_samples
       ELSE /\ trials = <<>>
            /\ acc = NoAcc
            /\ Count("gradient") = 1
            /\ Count("noise") = 0

C9_Witness ==
    /\ visualizer = "Saliency"
    /\ pc = "s_trial"
    /\ args.smooth_samples = 3
    /\ acc.k = 2
    /\ trials[1] # trials[2]
    /\ acc.den > 1

(* C10. Post-processing order in Gradcam.__call__: the activation modifier *)
(* is applied once, to the raw map (not at all when it is None), then the  *)
(* map is resized to each input (when expand_cam is true), and             *)
(* standardization, when standardize_cam is true, is the last thing        *)
(* applied to every returned map; when it is false no returned map is      *)
(* standardized.                                                           *)
StepsAfter(step) ==
    LET at == CHOOSE i \in DOMAIN log : log[i] = step
    IN  SubSeq(log, at + 1, Len(log))

C10_PostProcessingOrder ==
    (visualizer = "Gradcam" /\ pc = "returned") =>
       /\ \A raw \in {WeightedSum(penultimate_output, weights)} :
          \A modified \in {IF args.activation_modifier = "None" THEN raw
                           ELSE ApplyActivation(args.activation_modifier, raw)} :
          \A i \in DOMAIN result.maps :
          \A resized \in {IF args.expand_cam
                          THEN zoom(modified, zoom_factor(modified.shape, seed_inputs[i].shape))
                          ELSE modified} :
             result.maps[i] = IF args.standardize_cam THEN standardize(resized) ELSE resized
       /\ StepsAfter("cam") =
             (IF args.activation_modifier = "None" THEN <<>> ELSE <<"activation_modifier">>)
             \o (IF args.expand_cam THEN <<"zoom">> ELSE <<>>)
             \o (IF args.standardize_cam THEN <<"standardize">> ELSE <<>>)

C10_Witness ==
    /\ visualizer = "Gradcam"
    /\ pc = "returned"
    /\ args.activation_modifier = "relu"
    /\ args.expand_cam
    /\ args.standardize_cam
    /\ \E p \in 1..2 : WeightedSum(penultimate_output, weights).vals[1][p] < 0
    /\ One \in Range(result.maps[1].vals[1])
    /\ 0 \in Range(result.maps[1].vals[1])

(* C11. Mixed-precision cast in Gradcam.__call__: the forward pass yields  *)
(* the penultimate activation in the compute dtype; once the channel       *)
(* weights are computed under mixed precision, the cast has run before     *)
(* them, the gradients, the penultimate activation and the weights have    *)
(* the variable dtype, and so has the weighted sum and every returned map; *)
(* without mixed precision no cast is run and the dtypes are as the        *)
(* forward pass left them.                                                 *)
Before(a, b) == \E i, j \in DOMAIN log : i < j /\ log[i] = a /\ log[j] = b

C11_CastBeforeArithmetic ==
    visualizer = "Gradcam" =>
       /\ pc \in {"gradient", "cast"} =>
             penultimate_output.dtype = compute_dtype(model)
       /\ "weights" \in Steps =>
             /\ grads.dtype = variable_dtype(model)
             /\ penultimate_output.dtype = variable_dtype(model)
             /\ weights.dtype = variable_dtype(model)
             /\ \A i \in DOMAIN cam : cam[i].dtype = variable_dtype(model)
             /\ \A i \in DOMAIN result.maps : result.maps[i].dtype = variable_dtype(model)
             /\ IF is_mixed_precision(model)
                THEN /\ Count("cast") = 1
                     /\ Before("gradient", "cast")
                     /\ Before("cast", "weights")
                     /\ ~Before("weights", "cast")
                     /\ compute_dtype(model) # variable_dtype(model)
                ELSE /\ "cast" \notin Steps
                     /\ compute_dtype(model) = variable_dtype(model)

C11_Witness ==
    /\ visualizer = "Gradcam"
    /\ pc = "returned"
    /\ is_mixed_precision(model)
    /\ compute_dtype(model) = "float16"
    /\ "cast" \in Steps
    /\ penultimate_output.dtype = "float32"
    /\ result.maps[1].dtype = "float32"

(* C12. Watched tensors in Gradcam.__call__, as claimed (1): after the     *)
(* forward pass the tape watches exactly the penultimate activation, the   *)
(* tensor the gradient is requested with respect to.                       *)
C12_WatchesPenultimate ==
    (visualizer = "Gradcam" /\ pc = "gradient") =>
       watched = {penultimate_output}

(* C12 (2): the tape is opened before the forward pass and watches exactly *)
(* the seed inputs; the penultimate activation (the last output of the     *)
(* augmented model), with respect to which the gradient is requested, is   *)
(* not watched itself but computed under the tape from the watched seed    *)
(* inputs, so that a score depending on the outputs has a gradient; the    *)
(* scores are evaluated under the tape on the original outputs only.       *)
C12_WatchedTensors ==
    (visualizer = "Gradcam" /\ "forward" \in Steps) =>
       /\ watched = Range(seed_inputs)
       /\ Before("watch", "forward")
       /\ Before("forward", "score_values")
       /\ ~Before("forward", "watch")
       /\ "gradient" \in Steps => Before("score_values", "gradient")
       /\ Len(outputs) = self.nOut
       /\ Len(score_values) = Len(outputs)
       /\ score_values = calculate_scores(outputs, scores)
       /\ pc = "gradient" =>
             /\ penultimate_output \notin watched
             /\ \E s \in PenSamples :
                   Forward(model, seed_inputs, s) = outputs \o <<penultimate_output>>
       /\ ("gradient" \in Steps /\ ~Unconnected) => grads # NoneTensor

C12_Witness ==
    /\ visualizer = "Gradcam"
    /\ pc = "gradient"
    /\ self.nIn = 2
    /\ self.nOut = 2
    /\ Cardinality(watched) = 2
    /\ penultimate_output \notin watched
    /\ Len(outputs) = 2

====
